---- MODULE Spec2Model ----
(***************************************************************************)
(* Snapp Express Basket Helper: the content script's Search Context, its   *)
(* request handler and the vendor intersection (contentScript.js).         *)
(*                                                                         *)
(* JavaScript runs every handler to completion, so one action is one task: *)
(* a window message, a popup request up to its first pending fetch, and    *)
(* the settlement of one fetch together with the microtasks it releases.   *)
(***************************************************************************)
EXTENDS Integers, Sequences, FiniteSets, TLC

VARIABLES
  dynamicSearchContext, \* contentScript.js:16 the captured query parameters
  captured,             \* history: context fields a capture has carried non-null
  market,               \* the marketplace's delivery fee of every vendor
  status,               \* per request slot: "idle", "running" or "done"
  productNames,         \* per slot: validItems handed to findVendorsWithAllProducts
  query,                \* per slot: each query's state "inflight", "ok", "failed"
  responses,            \* per slot: the vendor list each settled query returned
  completed,            \* per slot: query indices in the order they were folded
  vendorMap,            \* per slot: the aggregation Map, in insertion order
  fetchLog,             \* per slot: the fetches issued, with their parameters
  replies,              \* per slot: every sendResponse call of the request
  overlays,             \* per slot: every showResultsOverlay call of the request
  alerts,               \* per slot: showInitAlert calls of the request
  pageCall,             \* the host page's latest call: <<"fetch" or "open", args>>
  pageLog,              \* what the interceptor did on that call, in order
  posted,               \* window messages posted and not yet delivered
  productRows,          \* popup.js: the values of the product inputs, top down
  findDisabled,         \* popup.js: findStoresBtn.disabled
  searches,             \* popup.js: the handleFindStores calls in progress
  statusText            \* popup.js: what statusDiv shows

pageVars == <<pageCall, pageLog>>

popupVars == <<productRows, findDisabled, searches, statusText>>

contentVars ==
  <<dynamicSearchContext, captured, market, status, productNames, query,
    responses, completed, vendorMap, fetchLog, replies, overlays, alerts>>

vars == <<dynamicSearchContext, captured, market, status, productNames, query,
          responses, completed, vendorMap, fetchLog, replies, overlays, alerts,
          pageCall, pageLog, posted, productRows, findDisabled, searches, statusText>>

(***************************************************************************)
(* Bounds and input domains                                                *)
(***************************************************************************)
\* longest items list a request carries
MaxItems == 2

\* JavaScript null (undefined behaves alike under != null and !value)
Null == "null"

\* a missing number or object: fees are <<>> or <<n>>, products <<>> or a tuple
None == <<>>

Slots == {"r1", "r2"}
MainSlots == {"r1"}

Vendors == {"V1", "V2"}
Fees == {None, <<0>>, <<10>>, <<20>>}

\* what a list position can hold: two names, a blank, and a non-string
NotAString == "#7"
ItemValues == {"milk", "bread", " ", NotAString}

ContextFields ==
  {"lat", "long", "pro_discount", "pro_client", "client", "deviceType",
   "appVersion", "UDID"}

EmptyContext == [f \in ContextFields |-> Null]

(***************************************************************************)
(* Search Context                                                          *)
(***************************************************************************)
\* the gate with the device identifier left out
isSearchContextInitializedGeoOnly ==
  /\ dynamicSearchContext.lat # Null
  /\ dynamicSearchContext.long # Null

\* contentScript.js:90-94
isSearchContextInitialized ==
  /\ dynamicSearchContext.lat # Null
  /\ dynamicSearchContext.long # Null
  /\ dynamicSearchContext.UDID # Null

\* the change test looking at the readiness fields only
hasChangesGeoOnly(payload) ==
  \E f \in {"lat", "long", "UDID"} :
    payload[f] # Null /\ dynamicSearchContext[f] # payload[f]

\* contentScript.js:56-64
hasChanges(payload) ==
  \E f \in ContextFields :
    payload[f] # Null /\ dynamicSearchContext[f] # payload[f]

\* the capture replacing the context instead of merging into it
MergeReplaces(payload) ==
  [f \in ContextFields |-> payload[f]]

\* contentScript.js:67-76
MergeContext(payload) ==
  [f \in ContextFields |->
     IF payload[f] # Null THEN payload[f] ELSE dynamicSearchContext[f]]

\* contentScript.js:56-78 the context a SEARCH_CONTEXT payload leaves
UpdatedContext(payload) ==
  IF hasChanges(payload) THEN MergeContext(payload) ELSE dynamicSearchContext

\* a listener that looks at the window only, not at the tag
OnWindowMessageUntagged(event) ==
  /\ IF event.sameWindow
     THEN /\ dynamicSearchContext' = UpdatedContext(event.payload)
          /\ captured' =
               captured \cup {f \in ContextFields : event.payload[f] # Null}
     ELSE UNCHANGED <<dynamicSearchContext, captured>>
  /\ UNCHANGED <<market, status, productNames, query, responses, completed,
                 vendorMap, fetchLog, replies, overlays, alerts, pageVars, popupVars>>

\* contentScript.js:49-81 the window message listener
OnWindowMessage(event) ==
  /\ IF /\ event.sameWindow
        /\ event.source = "SNAPP_EXT"
        /\ event.type = "SEARCH_CONTEXT"
     THEN /\ dynamicSearchContext' = UpdatedContext(event.payload)
          /\ captured' =
               captured \cup {f \in ContextFields : event.payload[f] # Null}
     ELSE UNCHANGED <<dynamicSearchContext, captured>>
  /\ UNCHANGED <<market, status, productNames, query, responses, completed,
                 vendorMap, fetchLog, replies, overlays, alerts, pageVars, popupVars>>

(***************************************************************************)
(* Marketplace responses                                                   *)
(***************************************************************************)
\* the k-th product a vendor lists for a query
Product(v, name, k) == <<v, name, k>>

\* listings of distinct vendors, in any order
VendorListings ==
  {l \in UNION {[1..n -> Vendors] : n \in 0..Cardinality(Vendors)} :
     \A i, j \in DOMAIN l : i # j => l[i] # l[j]}

\* the products array of one vendor entry: empty, or two products
ProductLists(v, name) ==
  {<<>>, <<Product(v, name, 1), Product(v, name, 2)>>}

\* the vendor entries a search for name can return for one listing
ItemsOf(l, name) ==
  {items \in [DOMAIN l -> UNION {[id : {v}, deliveryFee : {market[v]},
                                  products : ProductLists(v, name)] : v \in Vendors}] :
     \A k \in DOMAIN l : items[k].id = l[k]}

\* the JSON bodies a search for name can return: with the items array, or
\* without data.vendor_product_variations.items. A body lists a vendor at
\* most once, and a vendor carries the same delivery fee in every body.
ResponsesFor(name) ==
  {[hasItems |-> TRUE, items |-> items] :
     items \in UNION {ItemsOf(l, name) : l \in VendorListings}}
  \cup {[hasItems |-> FALSE, items |-> <<>>]}

(***************************************************************************)
(* Query Client                                                            *)
(***************************************************************************)
\* JavaScript !value on a string or null
Falsy(v) == v = Null \/ v = ""

\* contentScript.js:104-116 searchProduct(productName): the context guard
searchGuardThrows(ctx) ==
  Falsy(ctx.lat) \/ Falsy(ctx.long) \/ Falsy(ctx.pro_discount)

\* contentScript.js:118-136 the request searchProduct builds
searchRequest(name, ctx) ==
  [query |-> name, lat |-> ctx.lat, long |-> ctx.long,
   pro_discount |-> ctx.pro_discount, pro_client |-> ctx.pro_client,
   client |-> ctx.client, deviceType |-> ctx.deviceType,
   appVersion |-> ctx.appVersion, UDID |-> ctx.UDID]

\* contentScript.js:159-167
extractVendors(apiResponse) ==
  IF apiResponse.hasItems THEN apiResponse.items ELSE <<>>

(***************************************************************************)
(* Vendor intersection                                                     *)
(***************************************************************************)
IndexOfVendor(vm, vendorId) ==
  IF \E k \in DOMAIN vm : vm[k].id = vendorId
  THEN CHOOSE k \in DOMAIN vm : vm[k].id = vendorId
  ELSE 0

\* the last product of the entry instead of the first
matchedProductLast(vendor) ==
  IF Len(vendor.products) > 0 THEN vendor.products[Len(vendor.products)] ELSE None

\* contentScript.js:192-194
matchedProduct(vendor) ==
  IF Len(vendor.products) > 0 THEN vendor.products[1] ELSE None

\* contentScript.js:183-196 one vendor entry folded into the Map
FoldVendor(vm, productName, vendor) ==
  LET vm1 == IF IndexOfVendor(vm, vendor.id) = 0
             THEN Append(vm, [id |-> vendor.id, vendor |-> vendor,
                              products |-> [n \in {} |-> None]])
             ELSE vm
      k == IndexOfVendor(vm1, vendor.id)
      old == vm1[k].products
  IN [vm1 EXCEPT ![k].products =
        [n \in DOMAIN old \cup {productName} |->
           IF n = productName THEN matchedProduct(vendor) ELSE old[n]]]

\* a callback that leaves the Map alone
FoldVendorsLater(vm, productName, vendors) == vm

RECURSIVE FoldVendors(_, _, _)
\* contentScript.js:182-197 vendors.forEach
FoldVendors(vm, productName, vendors) ==
  IF vendors = <<>> THEN vm
  ELSE FoldVendors(FoldVendor(vm, productName, Head(vendors)), productName,
                   Tail(vendors))

\* contentScript.js:180-197 a response folded into the Map
FoldResponse(vm, productName, apiResponse) ==
  FoldVendors(vm, productName, extractVendors(apiResponse))

\* JavaScript value || null on a number or a missing value
OrNull(fee) == IF fee = None \/ fee = <<0>> THEN None ELSE fee

\* the entries in reverse of the requested order
matchedProductsDataReversed(names, products) ==
  [k \in DOMAIN names |->
     [name |-> names[Len(names) + 1 - k],
      product |-> IF names[Len(names) + 1 - k] \in DOMAIN products
                  THEN products[names[Len(names) + 1 - k]] ELSE None]]

\* contentScript.js:219-225
matchedProductsData(names, products) ==
  [k \in DOMAIN names |->
     [name |-> names[k],
      product |-> IF names[k] \in DOMAIN products
                  THEN products[names[k]] ELSE None]]

\* contentScript.js:227-237 the row pushed for one vendor
ResultRow(names, entry) ==
  [vendorId |-> entry.vendor.id,
   deliveryFee |-> OrNull(entry.vendor.deliveryFee),
   matchedProducts |-> matchedProductsData(names, entry.products)]

\* a vendor is selected when every requested name has a slot
SelectedByNames(names, entry) ==
  \A k \in DOMAIN names : names[k] \in DOMAIN entry.products

\* the size test inverted
SelectedInverted(names, entry) ==
  Cardinality(DOMAIN entry.products) # Len(names)

\* contentScript.js:218 products.size === totalProducts
Selected(names, entry) ==
  Cardinality(DOMAIN entry.products) = Len(names)

RECURSIVE matchingVendors(_, _)
\* contentScript.js:214-239 vendorMap.forEach, in insertion order
matchingVendors(names, vm) ==
  IF vm = <<>> THEN <<>>
  ELSE (IF Selected(names, Head(vm))
        THEN <<ResultRow(names, Head(vm))>> ELSE <<>>)
       \o matchingVendors(names, Tail(vm))

\* a missing fee taken as 0 instead of Infinity
SortCompareUnknownFirst(a, b) ==
  LET feeA == IF a.deliveryFee = None THEN 0 ELSE a.deliveryFee[1]
      feeB == IF b.deliveryFee = None THEN 0 ELSE b.deliveryFee[1]
  IN IF feeA < feeB THEN -1 ELSE IF feeA > feeB THEN 1 ELSE 0

\* contentScript.js:241-245 the comparator's sign: a missing fee is Infinity,
\* and Infinity - Infinity is NaN, which sort takes as 0
SortCompare(a, b) ==
  LET feeA == a.deliveryFee
      feeB == b.deliveryFee
  IN IF feeA = None /\ feeB = None THEN 0
     ELSE IF feeA = None THEN 1
     ELSE IF feeB = None THEN -1
     ELSE IF feeA[1] < feeB[1] THEN -1
     ELSE IF feeA[1] > feeB[1] THEN 1 ELSE 0

RECURSIVE InsertStable(_, _)
\* x placed behind every element that does not sort after it
InsertStable(sorted, x) ==
  IF sorted = <<>> THEN <<x>>
  ELSE IF SortCompare(Head(sorted), x) > 0 THEN <<x>> \o sorted
  ELSE <<Head(sorted)>> \o InsertStable(Tail(sorted), x)

RECURSIVE StableSortFrom(_, _)
StableSortFrom(sorted, rest) ==
  IF rest = <<>> THEN sorted
  ELSE StableSortFrom(InsertStable(sorted, Head(rest)), Tail(rest))

\* contentScript.js:241-245 Array.prototype.sort, which is stable
SortByFee(rows) == StableSortFrom(<<>>, rows)

\* contentScript.js:214-247 what findVendorsWithAllProducts returns
ResultOf(names, vm) == SortByFee(matchingVendors(names, vm))

(***************************************************************************)
(* The request handler and the fan-out                                     *)
(***************************************************************************)
\* String.prototype.trim on the item values
Trim(item) == IF item = " " THEN "" ELSE item

\* a filter that does not trim
IsValidItemNoTrim(item) == item # NotAString /\ item # ""

\* contentScript.js:564 the filter predicate
IsValidItem(item) == item # NotAString /\ item # "" /\ Trim(item) # ""

RECURSIVE FilterValid(_)
\* contentScript.js:564 validItems
FilterValid(items) ==
  IF items = <<>> THEN <<>>
  ELSE (IF IsValidItem(Head(items)) THEN <<Head(items)>> ELSE <<>>)
       \o FilterValid(Tail(items))

\* a join that gives up at the first failure
SettledOrFailed(q) ==
  (\A k \in DOMAIN q : q[k] # "inflight") \/ (\E k \in DOMAIN q : q[k] = "failed")

\* contentScript.js:206 Promise.all over promises that never reject
AllSettled(q) == \A k \in DOMAIN q : q[k] # "inflight"

\* only the first failure is noticed
failedProductsFirst(names, q) ==
  IF \E k \in DOMAIN q : q[k] = "failed"
  THEN <<names[CHOOSE k \in DOMAIN q :
                  q[k] = "failed" /\ \A j \in 1..(k - 1) : q[j] # "failed"]>>
  ELSE <<>>

\* no failure noticed
failedProductsNone(names, q) == <<>>

RECURSIVE failedProducts(_, _)
\* contentScript.js:208-210 the names of the failed queries, in list order
failedProducts(names, q) ==
  IF names = <<>> THEN <<>>
  ELSE (IF Head(q) = "failed" THEN <<Head(names)>> ELSE <<>>)
       \o failedProducts(Tail(names), Tail(q))

Failure(kind, names) ==
  [ok |-> FALSE, error |-> kind, failed |-> names, result |-> <<>>]

Success(vendors) ==
  [ok |-> TRUE, error |-> "", failed |-> <<>>, result |-> vendors]

\* a handler without its catch: the computation's error is lost and the
\* request is left without an answer
SettleUnanswered(s, names, q, vm, sent, shown) ==
  IF failedProducts(names, q) # <<>>
  THEN /\ replies' = [replies EXCEPT ![s] = sent]
       /\ overlays' = [overlays EXCEPT ![s] = shown]
  ELSE /\ overlays' = [overlays EXCEPT ![s] = Append(shown, ResultOf(names, vm))]
       /\ replies' = [replies EXCEPT ![s] =
            Append(sent, Success(ResultOf(names, vm)))]

\* contentScript.js:206-247 and 586-608: past the join, the computation throws
\* or returns, and the handler answers; sent and shown are the request's
\* earlier sendResponse and showResultsOverlay calls. The overlay's rendering
\* (lines 272-547) is taken to succeed. A row carries the fields that decide
\* selection and order; code, title, address, rating, deliveryTime and
\* featured are copied like deliveryFee and read by the rendering only.
Settle(s, names, q, vm, sent, shown) ==
  IF failedProducts(names, q) # <<>>
  THEN /\ replies' = [replies EXCEPT ![s] =
            Append(sent, Failure("SearchFailed", failedProducts(names, q)))]
       /\ overlays' = [overlays EXCEPT ![s] = shown]
  ELSE /\ overlays' = [overlays EXCEPT ![s] = Append(shown, ResultOf(names, vm))]
       /\ replies' = [replies EXCEPT ![s] =
            Append(sent, Success(ResultOf(names, vm)))]

\* a request that ends in the task that received it
Answer(s, reply, alerted) ==
  /\ status' = [status EXCEPT ![s] = "done"]
  /\ productNames' = [productNames EXCEPT ![s] = <<>>]
  /\ query' = [query EXCEPT ![s] = <<>>]
  /\ fetchLog' = [fetchLog EXCEPT ![s] = <<>>]
  /\ replies' = [replies EXCEPT ![s] = <<reply>>]
  /\ overlays' = [overlays EXCEPT ![s] = <<>>]
  /\ alerts' = [alerts EXCEPT ![s] = alerted]

\* later queries of a batch read a context that lost its device identifier
dispatchMixed(validItems, ctx) ==
  IF searchGuardThrows(ctx) THEN <<>>
  ELSE [k \in DOMAIN validItems |->
          searchRequest(validItems[k],
                        IF k = 1 THEN ctx ELSE [ctx EXCEPT !.UDID = Null])]

\* one query at a time: only the first fetch leaves in the task of the request
dispatchFirstOnly(validItems, ctx) ==
  IF searchGuardThrows(ctx) THEN <<>>
  ELSE <<searchRequest(validItems[1], ctx)>>

\* contentScript.js:177-179 and 100-145: productNames.map calls searchProduct
\* for every name in turn, and each call runs to its fetch, or throws,
\* before map goes on: the fetches issued in the task of the request
dispatchAll(validItems, ctx) ==
  IF searchGuardThrows(ctx) THEN <<>>
  ELSE [k \in DOMAIN validItems |-> searchRequest(validItems[k], ctx)]

\* contentScript.js:169-206 findVendorsWithAllProducts up to the join: every
\* searchProduct call runs to its fetch, or throws, before the task ends
Launch(s, validItems) ==
  LET ctx == dynamicSearchContext
      q == [k \in DOMAIN validItems |->
              IF searchGuardThrows(ctx) THEN "failed" ELSE "inflight"]
  IN /\ productNames' = [productNames EXCEPT ![s] = validItems]
     /\ query' = [query EXCEPT ![s] = q]
     /\ fetchLog' = [fetchLog EXCEPT ![s] = dispatchAll(validItems, ctx)]
     /\ alerts' = [alerts EXCEPT ![s] = 0]
     /\ IF AllSettled(q)
        THEN /\ status' = [status EXCEPT ![s] = "done"]
             /\ Settle(s, validItems, q, <<>>, <<>>, <<>>)
        ELSE /\ status' = [status EXCEPT ![s] = "running"]
             /\ replies' = [replies EXCEPT ![s] = <<>>]
             /\ overlays' = [overlays EXCEPT ![s] = <<>>]

\* contentScript.js:550-612 the chrome.runtime.onMessage listener
OnMessage(s, message) ==
  /\ status[s] # "running"
  /\ responses' = [responses EXCEPT ![s] = <<>>]
  /\ completed' = [completed EXCEPT ![s] = <<>>]
  /\ vendorMap' = [vendorMap EXCEPT ![s] = <<>>]
  /\ IF message.type # "FIND_STORES_FOR_LIST"
     THEN Answer(s, Failure("UnknownType", <<>>), 0)
     ELSE IF ~message.items.isArray \/ message.items.elems = <<>>
     THEN Answer(s, Failure("InvalidList", <<>>), 0)
     ELSE IF FilterValid(message.items.elems) = <<>>
     THEN Answer(s, Failure("NoValidNames", <<>>), 0)
     ELSE IF ~isSearchContextInitialized
     THEN Answer(s, Failure("NotInitialized", <<>>), 1)
     ELSE Launch(s, FilterValid(message.items.elems))
  /\ UNCHANGED <<dynamicSearchContext, captured, market, pageVars, posted, popupVars>>

\* one Map for the whole content script: a response is folded into the map
\* of every request
QueryCompleteShared(s, k, apiResponse) ==
  /\ status[s] = "running"
  /\ k \in DOMAIN query[s]
  /\ query[s][k] = "inflight"
  /\ query' = [query EXCEPT ![s][k] = "ok"]
  /\ responses' = [responses EXCEPT ![s] = Append(@, apiResponse)]
  /\ completed' = [completed EXCEPT ![s] = Append(@, k)]
  /\ vendorMap' = [t \in Slots |->
       FoldResponse(vendorMap[t], productNames[s][k], apiResponse)]
  /\ IF AllSettled(query'[s])
     THEN /\ status' = [status EXCEPT ![s] = "done"]
          /\ Settle(s, productNames[s], query'[s], vendorMap'[s], replies[s], overlays[s])
     ELSE UNCHANGED <<status, replies, overlays>>
  /\ UNCHANGED <<dynamicSearchContext, captured, market, productNames,
                 fetchLog, alerts, pageVars, posted, popupVars>>

\* contentScript.js:139-152 and 180-199: a fetch resolves with a success
\* status and a JSON body, and its vendors are folded into the Map
QueryComplete(s, k, apiResponse) ==
  /\ status[s] = "running"
  /\ k \in DOMAIN query[s]
  /\ query[s][k] = "inflight"
  /\ query' = [query EXCEPT ![s][k] = "ok"]
  /\ responses' = [responses EXCEPT ![s] = Append(@, apiResponse)]
  /\ completed' = [completed EXCEPT ![s] = Append(@, k)]
  /\ vendorMap' = [vendorMap EXCEPT ![s] =
       FoldResponse(@, productNames[s][k], apiResponse)]
  /\ IF AllSettled(query'[s])
     THEN /\ status' = [status EXCEPT ![s] = "done"]
          /\ Settle(s, productNames[s], query'[s], vendorMap'[s], replies[s], overlays[s])
     ELSE UNCHANGED <<status, replies, overlays>>
  /\ UNCHANGED <<dynamicSearchContext, captured, market, productNames,
                 fetchLog, alerts, pageVars, posted, popupVars>>

\* contentScript.js:147-156 and 200-203: a fetch rejects, or resolves with a
\* non-success status or an unreadable body
QueryFail(s, k) ==
  /\ status[s] = "running"
  /\ k \in DOMAIN query[s]
  /\ query[s][k] = "inflight"
  /\ query' = [query EXCEPT ![s][k] = "failed"]
  /\ IF AllSettled(query'[s])
     THEN /\ status' = [status EXCEPT ![s] = "done"]
          /\ Settle(s, productNames[s], query'[s], vendorMap[s], replies[s], overlays[s])
     ELSE UNCHANGED <<status, replies, overlays>>
  /\ UNCHANGED <<dynamicSearchContext, captured, market, productNames,
                 responses, completed, vendorMap, fetchLog, alerts, pageVars,
                 posted, popupVars>>

\* what the fetch of a query comes to, with the body it carries:
\*   "rejects"    fetch rejects, a failure at network level
\*   "status"     fetch resolves with a non-success status
\*   "unreadable" a success status, and response.json() rejects
\*   "json"       a success status and a JSON body
OutcomeKinds == {"rejects", "status", "unreadable", "json"}

\* a client that does not look at the status
searchProductThrowsUnchecked(outcome) == outcome[1] \in {"rejects", "unreadable"}

\* contentScript.js:138-157 searchProduct past its fetch: it throws, or it
\* returns the body
searchProductThrows(outcome) ==
  \/ outcome[1] = "rejects"
  \/ outcome[1] = "status"
  \/ outcome[1] = "unreadable"

\* contentScript.js:138-157 and 180-203 the fetch of query k settles
FetchSettles(s, k, outcome) ==
  IF searchProductThrows(outcome) THEN QueryFail(s, k)
  ELSE QueryComplete(s, k, outcome[2])

(***************************************************************************)
(* The page interceptor (pageInterceptor.js)                               *)
(***************************************************************************)
\* where a URL points:
\*   "search"    https://api.snapp.express/mobile/v3/search?...
\*   "vendor"    another endpoint under https://api.snapp.express/
\*   "lookalike" https://api.snapp.express.example.org/?...
\*   "malformed" https://api.snapp.express:port/?... , which new URL rejects
\*   "other"     any URL that does not begin with https://api.snapp.express
Destinations == {"search", "vendor", "lookalike", "malformed", "other"}

\* the query string of a URL: per context field its value, "" when the
\* parameter is present and empty, Null when it is absent; lat and long in
\* every combination beside the other parameters, and alone
QueryStrings ==
  {[f \in ContextFields |->
      IF f = "lat" THEN lat ELSE IF f = "long" THEN long ELSE "v"] :
     lat \in {Null, "", "35.7"}, long \in {Null, "", "51.4"}}
  \cup {[f \in ContextFields |->
           IF f = "lat" THEN "35.7" ELSE IF f = "long" THEN "51.4" ELSE Null]}

\* a first argument of fetch or second of open: a string, a Request or
\* another object (a URL object, say)
Urls == [dest : Destinations, form : {"string", "Request", "object"},
         params : QueryStrings]

\* every prefix test passes
StartsWithAnything(url) == TRUE

\* pageInterceptor.js:8,22,32 urlString.startsWith(API_BASE_URL)
StartsWithApiBase(url) ==
  url.dest \in {"search", "vendor", "lookalike", "malformed"}

\* what the interceptor does is a tuple: the effect, its target, the
\* arguments of a transport call, the data of a posted message (its source,
\* type and payload)
PostMessage(data) == <<"postMessage", "window", <<>>, data>>

\* originalFetch.apply(this, args) or originalOpen.apply(this, args)
Transport(kind, args) == <<"transport", kind, args, <<>>>>

\* a parser that takes every string for a URL
newUrlThrowsNever(url) == FALSE

\* pageInterceptor.js:41 new URL(urlString) throws a TypeError
newUrlThrows(url) == url.dest = "malformed"

\* pageInterceptor.js:39-70 extractAndSendParams: the messages it posts; a
\* throw inside its try is caught and logged
extractAndSendParams(url) ==
  IF newUrlThrows(url) THEN <<>>
  ELSE IF ~Falsy(url.params.lat) /\ ~Falsy(url.params.long)
  THEN <<PostMessage(<<"SNAPP_EXT", "SEARCH_CONTEXT", url.params>>)>>
  ELSE <<>>

\* an override that hands the call on before it looks at the URL
fetchOverrideForwardFirst(args) ==
  <<Transport("fetch", args)>>
  \o (IF args # <<>> /\ args[1].form \in {"string", "Request"}
         /\ StartsWithApiBase(args[1])
      THEN extractAndSendParams(args[1]) ELSE <<>>)

\* pageInterceptor.js:12-27 the window.fetch override: what it does, in order
fetchOverride(args) ==
  (IF args # <<>> /\ args[1].form \in {"string", "Request"}
      /\ StartsWithApiBase(args[1])
   THEN extractAndSendParams(args[1]) ELSE <<>>)
  \o <<Transport("fetch", args)>>

\* pageInterceptor.js:31-37 the XMLHttpRequest.prototype.open override, on a
\* call that names its method and URL
openOverride(method, url, rest) ==
  (IF url.form = "string" /\ StartsWithApiBase(url)
   THEN extractAndSendParams(url) ELSE <<>>)
  \o <<Transport("open", <<method, url>> \o rest)>>

\* the window messages among the effects of a call
PostedBy(effects) ==
  [k \in DOMAIN SelectSeq(effects, LAMBDA e : e[1] = "postMessage") |->
     SelectSeq(effects, LAMBDA e : e[1] = "postMessage")[k][4]]

\* at most this many posted messages wait for delivery
MaxPosted == 1

\* one call of the host page, into the override
PageCall(kind, args, effects) ==
  /\ Len(posted \o PostedBy(effects)) <= MaxPosted
  /\ pageCall' = <<kind, args>>
  /\ pageLog' = effects
  /\ posted' = posted \o PostedBy(effects)
  /\ UNCHANGED <<contentVars, popupVars>>

WindowFetch(args) == PageCall("fetch", args, fetchOverride(args))

XhrOpen(method, url, rest) ==
  PageCall("open", <<method, url>> \o rest, openOverride(method, url, rest))

(***************************************************************************)
(* The popup's product rows (popup.js)                                     *)
(***************************************************************************)
\* popup.js:8-11 the rows the popup opens with
InitialRows == <<"", "">>

\* most rows the popup is given
MaxRows == 4

InputValues == {"", " ", "milk", "bread"}

Without(rs, i) == [k \in 1..(Len(rs) - 1) |-> IF k < i THEN rs[k] ELSE rs[k + 1]]

\* a removal that never refuses
RowsAfterRemoveAlways(rs, i) == Without(rs, i)

\* popup.js:73-81 removeProductInput(row), row being the i-th
RowsAfterRemove(rs, i) == IF Len(rs) <= 1 THEN rs ELSE Without(rs, i)

\* popup.js:31-67 addProductInput
addProductInput ==
  /\ Len(productRows) < MaxRows
  /\ productRows' = Append(productRows, "")
  /\ UNCHANGED <<contentVars, pageVars, posted, findDisabled, searches, statusText>>

removeProductInput(i) ==
  /\ i \in DOMAIN productRows
  /\ productRows' = RowsAfterRemove(productRows, i)
  /\ UNCHANGED <<contentVars, pageVars, posted, findDisabled, searches, statusText>>

\* the user edits the i-th input
TypeProduct(i, value) ==
  /\ i \in DOMAIN productRows
  /\ productRows' = [productRows EXCEPT ![i] = value]
  /\ UNCHANGED <<contentVars, pageVars, posted, findDisabled, searches, statusText>>

\* at most this many handleFindStores calls are in progress
MaxSearches == 2

RECURSIVE collectProducts(_)
\* popup.js:104-116 collectProducts: the trimmed values that are not empty
collectProducts(rs) ==
  IF rs = <<>> THEN <<>>
  ELSE (IF Trim(Head(rs)) # "" THEN <<Trim(Head(rs))>> ELSE <<>>)
       \o collectProducts(Tail(rs))

\* popup.js:139-157 handleFindStores up to its first await; a call in
\* progress is <<where it waits, the products it collected>>
handleFindStores ==
  /\ IF collectProducts(productRows) = <<>>
     THEN /\ statusText' = "warning: no product"
          /\ UNCHANGED <<findDisabled, searches>>
     ELSE /\ Len(searches) < MaxSearches
          /\ findDisabled' = TRUE
          /\ statusText' = "info: checking tab"
          /\ searches' = Append(searches, <<"tabs.query", collectProducts(productRows)>>)
  /\ UNCHANGED <<contentVars, pageVars, posted, productRows>>

\* popup.js:25-27 a click on the button; a disabled button gets no click
ClickFindStores == ~findDisabled /\ handleFindStores

\* popup.js:41-46 Enter in the i-th input
KeydownEnter(i) == i \in DOMAIN productRows /\ handleFindStores

\* the active tab: none, a tab on another site, a tab on the marketplace
Tabs == {"none", "other", "express.snapp.market"}

\* popup.js:157-177 chrome.tabs.query resolves for the n-th call in progress
TabsQueryResolves(n, tab) ==
  /\ n \in DOMAIN searches
  /\ searches[n][1] = "tabs.query"
  /\ IF tab = "none"
     THEN /\ statusText' = "error: no tab"
          /\ findDisabled' = FALSE
          /\ searches' = Without(searches, n)
     ELSE IF tab = "other"
     THEN /\ statusText' = "error: open the marketplace"
          /\ findDisabled' = FALSE
          /\ searches' = Without(searches, n)
     ELSE /\ statusText' = "info: searching"
          /\ searches' = [searches EXCEPT ![n] = <<"tabs.sendMessage", searches[n][2]>>]
          /\ UNCHANGED findDisabled
  /\ UNCHANGED <<contentVars, pageVars, posted, productRows>>

\* what chrome.tabs.sendMessage comes to: a response with vendors, one with
\* none, a refusal, or a rejection
SendOutcomes == {"ok: vendors", "ok: none", "not ok", "rejects"}

\* popup.js:174-200 chrome.tabs.sendMessage settles for the n-th call in
\* progress; the popup closes half a second after a success
SendMessageSettles(n, outcome) ==
  /\ n \in DOMAIN searches
  /\ searches[n][1] = "tabs.sendMessage"
  /\ statusText' = (IF outcome = "ok: vendors" THEN "success: found"
                    ELSE IF outcome = "ok: none" THEN "warning: none found"
                    ELSE "error: search")
  /\ findDisabled' = FALSE
  /\ searches' = Without(searches, n)
  /\ UNCHANGED <<contentVars, pageVars, posted, productRows>>

(***************************************************************************)
(* Specifications                                                          *)
(***************************************************************************)
ItemLists == UNION {[1..n -> ItemValues] : n \in 0..MaxItems}

Messages ==
  {[type |-> "FIND_STORES_FOR_LIST", items |-> [isArray |-> TRUE, elems |-> l]] :
     l \in ItemLists}
  \cup {[type |-> "FIND_STORES_FOR_LIST", items |-> [isArray |-> FALSE, elems |-> <<>>]],
        [type |-> "PING", items |-> [isArray |-> FALSE, elems |-> <<>>]]}

\* captures of a full search URL and of one that carries no discount token
FullCapture ==
  [lat |-> "35.7", long |-> "51.4", pro_discount |-> "18000",
   pro_client |-> "snapp", client |-> "PWA", deviceType |-> "PWA",
   appVersion |-> "1.333.5", UDID |-> "u1"]

BareCapture ==
  [f \in ContextFields |->
     IF f \in {"lat", "long", "UDID"} THEN FullCapture[f] ELSE Null]

Event(payload) ==
  [sameWindow |-> TRUE, source |-> "SNAPP_EXT", type |-> "SEARCH_CONTEXT",
   payload |-> payload]

InitWith(catalogs) ==
  /\ dynamicSearchContext = EmptyContext
  /\ captured = {}
  /\ market \in catalogs
  /\ status = [s \in Slots |-> "idle"]
  /\ productNames = [s \in Slots |-> <<>>]
  /\ query = [s \in Slots |-> <<>>]
  /\ responses = [s \in Slots |-> <<>>]
  /\ completed = [s \in Slots |-> <<>>]
  /\ vendorMap = [s \in Slots |-> <<>>]
  /\ fetchLog = [s \in Slots |-> <<>>]
  /\ replies = [s \in Slots |-> <<>>]
  /\ overlays = [s \in Slots |-> <<>>]
  /\ alerts = [s \in Slots |-> 0]
  /\ pageCall = None
  /\ pageLog = <<>>
  /\ posted = <<>>
  /\ productRows = InitialRows
  /\ findDisabled = FALSE
  /\ searches = <<>>
  /\ statusText = ""

\* Spec: one request against every response the marketplace can give, the
\* fees fixed
OneCatalog == [v \in Vendors |-> IF v = "V1" THEN <<20>> ELSE <<10>>]

Init == InitWith({OneCatalog})

Capture ==
  \E payload \in {FullCapture, BareCapture} :
    OnWindowMessage(Event(payload)) /\ UNCHANGED posted

Request ==
  \E s \in MainSlots, message \in Messages :
    status[s] = "idle" /\ OnMessage(s, message)

Complete ==
  \E s \in MainSlots, k \in 1..MaxItems :
    /\ k \in DOMAIN productNames[s]
    /\ \E apiResponse \in ResponsesFor(productNames[s][k]) :
         QueryComplete(s, k, apiResponse)

Fail == \E s \in MainSlots, k \in 1..MaxItems : QueryFail(s, k)

Next == Capture \/ Request \/ Complete \/ Fail

Spec == Init /\ [][Next]_vars

\* SpecSort: one request under every assignment of fees, every listed vendor
\* stocking the product
InitSort == InitWith([Vendors -> Fees])

StockedResponsesFor(name) ==
  {r \in ResponsesFor(name) :
     r.hasItems /\ \A k \in DOMAIN r.items : r.items[k].products # <<>>}

CompleteStocked ==
  \E s \in MainSlots, k \in 1..MaxItems :
    /\ k \in DOMAIN productNames[s]
    /\ \E apiResponse \in StockedResponsesFor(productNames[s][k]) :
         QueryComplete(s, k, apiResponse)

NextSort == Capture \/ Request \/ CompleteStocked \/ Fail

SpecSort == InitSort /\ [][NextSort]_vars

\* SpecContext: every capture against every context, requests one after
\* another, the marketplace answering with no vendor; a capture carries the
\* device-type and app-version tags together
Payloads ==
  {p \in [lat : {Null, "35.7", "35.8"}, long : {Null, "v"},
          pro_discount : {Null, "", "v"}, pro_client : {Null, "v"},
          client : {Null, "v"}, deviceType : {Null, "v"},
          appVersion : {Null, "v"}, UDID : {Null, "v"}] :
     (p.deviceType = Null) = (p.appVersion = Null)}

WindowEvents ==
  {Event(p) : p \in Payloads}
  \cup {[Event(FullCapture) EXCEPT !.sameWindow = FALSE],
        [Event(FullCapture) EXCEPT !.source = "page"],
        [Event(FullCapture) EXCEPT !.type = "PING"]}

CaptureAny == \E event \in WindowEvents : OnWindowMessage(event) /\ UNCHANGED posted

RequestAgain ==
  \E s \in MainSlots, message \in Messages :
    /\ \A k \in DOMAIN message.items.elems : message.items.elems[k] # "bread"
    /\ OnMessage(s, message)

CompleteEmpty ==
  \E s \in MainSlots, k \in 1..MaxItems :
    QueryComplete(s, k, [hasItems |-> TRUE, items |-> <<>>])

NextContext == CaptureAny \/ RequestAgain \/ CompleteEmpty \/ Fail

SpecContext == Init /\ [][NextContext]_vars

\* SpecObserver: the host page's requests through the interceptor, and the
\* delivery of what it posts to the content script's listener
FetchArgs == {<<>>} \cup {<<url, "init">> : url \in Urls}

PageFetch == \E args \in FetchArgs : WindowFetch(args)

PageOpen ==
  \E url \in Urls, rest \in {<<>>, <<TRUE>>} :
    url.form # "Request" /\ XhrOpen("GET", url, rest)

Deliver ==
  /\ posted # <<>>
  /\ OnWindowMessage([sameWindow |-> TRUE, source |-> Head(posted)[1],
                      type |-> Head(posted)[2], payload |-> Head(posted)[3]])
  /\ posted' = Tail(posted)

NextObserver == PageFetch \/ PageOpen \/ Deliver

SpecObserver == Init /\ [][NextObserver]_vars

\* SpecPopup: the user adds, removes and edits product rows
AddRow == addProductInput

RemoveRow == \E i \in 1..MaxRows : removeProductInput(i)

EditRow == \E i \in 1..MaxRows, value \in InputValues : TypeProduct(i, value)

NextPopup == AddRow \/ RemoveRow \/ EditRow

SpecPopup == Init /\ [][NextPopup]_vars

\* SpecSearch: the user edits the two rows, clicks the button and presses
\* Enter, while the searches already started go on
Click == ClickFindStores

Enter == \E i \in 1..MaxRows : KeydownEnter(i)

TabsQuery == \E n \in 1..MaxSearches, tab \in Tabs : TabsQueryResolves(n, tab)

SendMessage ==
  \E n \in 1..MaxSearches, outcome \in SendOutcomes : SendMessageSettles(n, outcome)

NextSearch == EditRow \/ Click \/ Enter \/ TabsQuery \/ SendMessage

SpecSearch == Init /\ [][NextSearch]_vars

\* SpecFrame: the interceptor's captures beside window messages of other
\* scripts of the page, one of which carries the interceptor's tag, and
\* requests one after another
ForgedCapture == [FullCapture EXCEPT !.lat = "0.0"]

UntaggedPayload == [FullCapture EXCEPT !.lat = "9.9"]

ForeignEvents ==
  {Event(ForgedCapture),
   [Event(UntaggedPayload) EXCEPT !.sameWindow = FALSE],
   [Event(UntaggedPayload) EXCEPT !.source = "page"],
   [Event(UntaggedPayload) EXCEPT !.type = "PING"]}

ForeignMessage ==
  \E event \in ForeignEvents : OnWindowMessage(event) /\ UNCHANGED posted

PageSearch ==
  \E url \in Urls :
    url.dest = "search" /\ url.form = "string" /\ WindowFetch(<<url, "init">>)

NextFrame ==
  PageSearch \/ Deliver \/ ForeignMessage \/ RequestAgain \/ CompleteEmpty \/ Fail

SpecFrame == Init /\ [][NextFrame]_vars

\* SpecPair: two requests whose computations overlap, the marketplace
\* answering each query with vendors that stock the product
PairMessages ==
  {message \in Messages :
     message.items.elems \in {<<"milk">>, <<"milk", "bread">>}}

CapturePair == OnWindowMessage(Event(FullCapture)) /\ UNCHANGED posted

RequestPair ==
  \E s \in Slots, message \in PairMessages :
    status[s] = "idle" /\ OnMessage(s, message)

CompletePair ==
  \E s \in Slots, k \in 1..MaxItems :
    /\ k \in DOMAIN productNames[s]
    /\ \E apiResponse \in StockedResponsesFor(productNames[s][k]) :
         QueryComplete(s, k, apiResponse)

FailPair == \E s \in Slots, k \in 1..MaxItems : QueryFail(s, k)

NextPair == CapturePair \/ RequestPair \/ CompletePair \/ FailPair

SpecPair == Init /\ [][NextPair]_vars

\* SpecTransport: one request, each fetch ending in every way a fetch can,
\* an error status carrying a body like any other response
Outcomes(name) ==
  {<<kind, body>> : kind \in OutcomeKinds, body \in StockedResponsesFor(name)}

Settles ==
  \E s \in MainSlots, k \in 1..MaxItems :
    /\ k \in DOMAIN productNames[s]
    /\ \E outcome \in Outcomes(productNames[s][k]) : FetchSettles(s, k, outcome)

NextTransport == CapturePair \/ Request \/ Settles

SpecTransport == Init /\ [][NextTransport]_vars

\* SpecAnswer: the same, and a fetch that is in flight settles in the end:
\* the browser resolves or rejects every fetch promise, and the event loop
\* runs the continuation of a settled promise
SpecAnswer == Init /\ [][NextTransport]_vars /\ WF_vars(Settles)

(***************************************************************************)
(* Properties                                                              *)
(***************************************************************************)
\* the request of slot s was answered with a vendor list
Returned(s) ==
  status[s] = "done" /\ Len(replies[s]) = 1 /\ replies[s][1].ok

ResultList(s) == replies[s][1].result

\* every query of slot s was issued and settled successfully
AllSucceeded(s) ==
  query[s] # <<>> /\ \A k \in DOMAIN query[s] : query[s][k] = "ok"

Distinct(names) ==
  \A i, j \in DOMAIN names : i # j => names[i] # names[j]

\* the response query k of slot s received
ResponseOf(s, k) ==
  responses[s][CHOOSE j \in DOMAIN completed[s] : completed[s][j] = k]

Listed(v, apiResponse) ==
  \E e \in DOMAIN extractVendors(apiResponse) :
    extractVendors(apiResponse)[e].id = v

ListedWithProduct(v, apiResponse) ==
  \E e \in DOMAIN extractVendors(apiResponse) :
    /\ extractVendors(apiResponse)[e].id = v
    /\ Len(extractVendors(apiResponse)[e].products) > 0

RowsOf(s, v) == {i \in DOMAIN ResultList(s) : ResultList(s)[i].vendorId = v}

\* C1: when the queries of distinct names all succeed, a vendor is in the
\* returned list iff every name's response lists it with at least one matched
\* product, and no returned row has an absent product.
C1_IntersectionLaw ==
  \A s \in MainSlots :
    (Returned(s) /\ AllSucceeded(s) /\ Distinct(productNames[s])) =>
      /\ \A v \in Vendors :
           (RowsOf(s, v) # {}) <=>
             \A k \in DOMAIN productNames[s] : ListedWithProduct(v, ResponseOf(s, k))
      /\ \A i \in DOMAIN ResultList(s) :
           \A k \in DOMAIN ResultList(s)[i].matchedProducts :
             ResultList(s)[i].matchedProducts[k].product # None

\* C2: once a query of a computation has failed, the requester gets no vendor
\* list and no overlay for that request, and the finished request carries
\* exactly one answer, the search failure.
C2_NoPartialResult ==
  \A s \in MainSlots :
    (\E k \in DOMAIN query[s] : query[s][k] = "failed") =>
      /\ overlays[s] = <<>>
      /\ \A j \in DOMAIN replies[s] : ~replies[s][j].ok
      /\ status[s] = "done" =>
           /\ Len(replies[s]) = 1
           /\ replies[s][1].error = "SearchFailed"

\* a finished two-name request with one query failed and the other answered
\* with a vendor that stocks the product
C2_Witness ==
  \E s \in MainSlots :
    /\ status[s] = "done"
    /\ Len(query[s]) = 2
    /\ \E k \in DOMAIN query[s] : query[s][k] = "failed"
    /\ \E k \in DOMAIN query[s] : query[s][k] = "ok"
    /\ \E v \in Vendors : ListedWithProduct(v, responses[s][1])
    /\ replies[s] # <<>>

\* the Search Context is ready: lat, long and UDID are all captured
ContextReady ==
  /\ dynamicSearchContext.lat # Null
  /\ dynamicSearchContext.long # Null
  /\ dynamicSearchContext.UDID # Null

\* C3: while lat, long or UDID is null (so also right after any request that
\* arrived in such a state), no fetch has been issued for a request, no
\* query is pending, and a request that was answered got a single failure.
C3_NotReadyNoNetwork ==
  ~ContextReady =>
    \A s \in MainSlots :
      /\ fetchLog[s] = <<>>
      /\ query[s] = <<>>
      /\ status[s] # "running"
      /\ \A j \in DOMAIN replies[s] : ~replies[s][j].ok
      /\ status[s] = "done" => Len(replies[s]) = 1

\* a valid list was refused for the missing device identifier alone, with the
\* geolocation and the discount token already captured
C3_Witness ==
  \E s \in MainSlots :
    /\ status[s] = "done"
    /\ Len(replies[s]) = 1
    /\ replies[s][1].error = "NotInitialized"
    /\ alerts[s] = 1
    /\ dynamicSearchContext.lat # Null
    /\ dynamicSearchContext.long # Null
    /\ dynamicSearchContext.pro_discount = "v"
    /\ dynamicSearchContext.UDID = Null

\* the fee the marketplace reports for the vendor of a returned row
MarketFee(row) == market[row.vendorId]

\* C4: in a returned list, of two vendors whose marketplace fees are known
\* numbers (0 included), the one with the strictly smaller fee comes first.
C4_AscendingKnownFees ==
  \A s \in MainSlots :
    Returned(s) =>
      \A i, j \in DOMAIN ResultList(s) :
        (/\ MarketFee(ResultList(s)[i]) # None
         /\ MarketFee(ResultList(s)[j]) # None
         /\ MarketFee(ResultList(s)[i])[1] < MarketFee(ResultList(s)[j])[1]) =>
          i < j

\* where the aggregation map of slot s holds vendor v
MapPosition(s, v) == CHOOSE k \in DOMAIN vendorMap[s] : vendorMap[s][k].id = v

\* C5: in a returned list every row without a delivery fee comes after every
\* row with one, and the rows without a fee stand in the order their vendors
\* were added to the aggregation map.
C5_UnknownFeesLastStable ==
  \A s \in MainSlots :
    Returned(s) =>
      \A i, j \in DOMAIN ResultList(s) :
        i < j =>
          /\ ResultList(s)[i].deliveryFee = None =>
               ResultList(s)[j].deliveryFee = None
          /\ (/\ ResultList(s)[i].deliveryFee = None
              /\ ResultList(s)[j].deliveryFee = None) =>
               MapPosition(s, ResultList(s)[i].vendorId)
                 < MapPosition(s, ResultList(s)[j].vendorId)

\* a returned list in which a vendor added first, with no fee, stands behind a
\* vendor with a fee
C5_Witness ==
  \E s \in MainSlots :
    /\ Returned(s)
    /\ Len(ResultList(s)) = 2
    /\ ResultList(s)[1].deliveryFee # None
    /\ ResultList(s)[2].deliveryFee = None
    /\ MapPosition(s, ResultList(s)[2].vendorId) = 1

\* C6: from every context, a capture leaves each field with the captured
\* value if that is non-null and with its earlier value otherwise, and no
\* step turns a non-null field back to null.
C6_MergeNonDestructive ==
  /\ [](\A payload \in Payloads : \A f \in ContextFields :
          UpdatedContext(payload)[f] =
            IF payload[f] # Null THEN payload[f] ELSE dynamicSearchContext[f])
  /\ [][\A f \in ContextFields :
          dynamicSearchContext[f] # Null => dynamicSearchContext'[f] # Null]_vars

\* a context built by several captures: the second geolocation value has
\* overwritten the first while the fields of other captures are kept
C6_Witness ==
  /\ dynamicSearchContext.lat = "35.8"
  /\ dynamicSearchContext.pro_discount = ""
  /\ \A f \in ContextFields : dynamicSearchContext[f] # Null

\* C7: the readiness gate is false until lat, long and UDID have each been
\* captured at least once, and once true it stays true.
C7_ReadinessMonotonic ==
  /\ [](isSearchContextInitialized => {"lat", "long", "UDID"} \subseteq captured)
  /\ [][isSearchContextInitialized => isSearchContextInitialized']_vars

\* the gate is true, with fields besides the three still uncaptured
C7_Witness ==
  /\ isSearchContextInitialized
  /\ captured = {"lat", "long", "UDID"}

\* C8: when every query of a request has settled successfully the request is
\* finished with a vendor list, and every row's matchedProducts has one entry
\* per requested name, named in the requested order.
C8_MatchedProductsShape ==
  \A s \in MainSlots :
    AllSucceeded(s) =>
      /\ Returned(s)
      /\ \A i \in DOMAIN ResultList(s) :
           /\ Len(ResultList(s)[i].matchedProducts) = Len(productNames[s])
           /\ \A k \in DOMAIN productNames[s] :
                ResultList(s)[i].matchedProducts[k].name = productNames[s][k]

\* a two-name request returned a vendor
C8_Witness ==
  \E s \in MainSlots :
    /\ AllSucceeded(s)
    /\ Returned(s)
    /\ Len(productNames[s]) = 2
    /\ ResultList(s) # <<>>

\* the entry of vendor v in a response that lists it
EntryOf(v, apiResponse) ==
  extractVendors(apiResponse)[
    CHOOSE e \in DOMAIN extractVendors(apiResponse) :
      extractVendors(apiResponse)[e].id = v]

\* C9: for distinct names whose queries all succeed, a vendor listed with a
\* matched product in every response has exactly one row, holding for each
\* name the first product of its entry in that name's response, and a vendor
\* missing from some response has no row.
C9_FullCoverageReturned ==
  \A s \in MainSlots :
    (Returned(s) /\ AllSucceeded(s) /\ Distinct(productNames[s])) =>
      \A v \in Vendors :
        /\ (\A k \in DOMAIN productNames[s] :
              ListedWithProduct(v, ResponseOf(s, k))) =>
             /\ Cardinality(RowsOf(s, v)) = 1
             /\ \A i \in RowsOf(s, v), k \in DOMAIN productNames[s] :
                  ResultList(s)[i].matchedProducts[k].product =
                    EntryOf(v, ResponseOf(s, k)).products[1]
        /\ (\E k \in DOMAIN productNames[s] : ~Listed(v, ResponseOf(s, k))) =>
             RowsOf(s, v) = {}

\* two distinct names: one vendor is listed with products in both responses
\* and returned, another is missing from one response
C9_Witness ==
  \E s \in MainSlots :
    /\ Returned(s) /\ AllSucceeded(s) /\ Distinct(productNames[s])
    /\ Len(productNames[s]) = 2
    /\ \E v, w \in Vendors :
         /\ \A k \in DOMAIN productNames[s] : ListedWithProduct(v, ResponseOf(s, k))
         /\ RowsOf(s, v) # {}
         /\ Listed(w, ResponseOf(s, 1))
         /\ ~Listed(w, ResponseOf(s, 2))

CompletionOrders(n) ==
  {f \in [1..n -> 1..n] : \A i, j \in 1..n : i # j => f[i] # f[j]}

RECURSIVE FoldInOrder(_, _, _, _)
\* the aggregation map after the responses resps (by query) are folded in the
\* completion order given by the rest of order
FoldInOrder(vm, names, resps, order) ==
  IF order = <<>> THEN vm
  ELSE FoldInOrder(FoldResponse(vm, names[Head(order)], resps[Head(order)]),
                   names, resps, Tail(order))

\* what the computation returns for names on the responses resps completing
\* in the given order
Intersection(names, resps, order) ==
  ResultOf(names, FoldInOrder(<<>>, names, resps, order))

\* C10: with one successful response replaced by an empty vendor list, under
\* any completion order, the computation returns no more vendors than it
\* returned on the original responses.
C10_MonotonicIntersection ==
  \A s \in MainSlots :
    (Returned(s) /\ AllSucceeded(s)) =>
      \A i \in DOMAIN productNames[s] :
        \A order \in CompletionOrders(Len(productNames[s])) :
          Len(Intersection(productNames[s],
                [[k \in DOMAIN productNames[s] |-> ResponseOf(s, k)]
                   EXCEPT ![i] = [hasItems |-> TRUE, items |-> <<>>]],
                [k \in DOMAIN productNames[s] |-> order[k]]))
            <= Len(ResultList(s))

\* two distinct names returned a vendor, which the emptied response removes
C10_Witness ==
  \E s \in MainSlots :
    /\ Returned(s) /\ AllSucceeded(s)
    /\ Len(productNames[s]) = 2
    /\ Distinct(productNames[s])
    /\ Len(ResultList(s)) = 2

\* the responses of slot s, by query
ResponsesByQuery(s) == [k \in DOMAIN productNames[s] |-> ResponseOf(s, k)]

\* C11: for the names and the responses of a computation that succeeded, the
\* returned list (the vendor order and every field of every row) is the same
\* under every order in which the queries could have completed.
C11_CompletionOrderIndependent ==
  \A s \in MainSlots :
    (Returned(s) /\ AllSucceeded(s)) =>
      \A order \in CompletionOrders(Len(productNames[s])) :
        Intersection(productNames[s], ResponsesByQuery(s),
                     [k \in DOMAIN productNames[s] |-> order[k]])
          = ResultList(s)

\* C12: in every Search Context that is not ready (lat, long or UDID null),
\* searchProduct called with a product name alone throws at its context
\* guard, before any fetch.
C12_NotReadyGuardFails ==
  ~ContextReady => searchGuardThrows(dynamicSearchContext)

\* C13: whenever isSearchContextInitialized holds, searchProduct's guard lets
\* a query through, and every query a computation fanned out reached the
\* network.
C13_ReadyPassesGuard ==
  /\ isSearchContextInitialized => ~searchGuardThrows(dynamicSearchContext)
  /\ \A s \in MainSlots :
       productNames[s] # <<>> => Len(fetchLog[s]) = Len(productNames[s])

\* names that are empty or whitespace only
BlankNames == {"", " "}

\* the non-blank names of a list, in list order
NamesToQuery(elems) ==
  SelectSeq(elems, LAMBDA item : item # NotAString /\ item \notin BlankNames)

\* the product names the fetches of slot s were issued for, after the step
QueriedNames(s) == [k \in DOMAIN fetchLog'[s] |-> fetchLog'[s][k].query]

\* C14: a request whose list is not a list, is empty or holds only blank
\* names is answered in the same step by a single failure and issues no
\* fetch; a request that issues fetches issues them for the non-blank names
\* of its list, one each, in list order, and for no blank name.
C14_InvalidListsRefused ==
  [][\A s \in MainSlots :
       (status[s] = "idle" /\ status'[s] # "idle") =>
         \A message \in Messages :
           (message.type = "FIND_STORES_FOR_LIST" /\ OnMessage(s, message)) =>
             /\ (\/ ~message.items.isArray
                 \/ message.items.elems = <<>>
                 \/ \A k \in DOMAIN message.items.elems :
                      message.items.elems[k] \in BlankNames) =>
                  /\ status'[s] = "done"
                  /\ Len(replies'[s]) = 1
                  /\ ~replies'[s][1].ok
                  /\ overlays'[s] = <<>>
                  /\ fetchLog'[s] = <<>>
             /\ fetchLog'[s] # <<>> =>
                  QueriedNames(s) = NamesToQuery(message.items.elems)
             /\ \A k \in DOMAIN fetchLog'[s] :
                  fetchLog'[s][k].query \notin BlankNames]_vars

\* a list of blank names was refused while the captured context would have
\* let queries through
C14_Witness ==
  \E s \in MainSlots :
    /\ status[s] = "done"
    /\ Len(replies[s]) = 1
    /\ replies[s][1].error = "NoValidNames"
    /\ fetchLog[s] = <<>>
    /\ isSearchContextInitialized
    /\ ~searchGuardThrows(dynamicSearchContext)

\* where the interceptor's log of the latest call holds a given effect
EffectsAt(effect) == {i \in DOMAIN pageLog : pageLog[i][1] = effect}

\* C15: on every fetch or XMLHttpRequest.open call of the host page the
\* interceptor calls the original transport exactly once, with the arguments
\* the page gave, and after anything it posts.
C15_ForwardedOnceAfterCapture ==
  pageCall # None =>
    /\ Cardinality(EffectsAt("transport")) = 1
    /\ pageLog[Len(pageLog)] = Transport(pageCall[1], pageCall[2])

\* a fetch whose URL was captured and then handed on
C15_Witness ==
  /\ pageCall # None
  /\ pageCall[1] = "fetch"
  /\ Len(pageLog) = 2
  /\ pageLog[1][1] = "postMessage"

\* the URL argument of the latest call
CallUrl == IF pageCall[1] = "fetch" THEN pageCall[2][1] ELSE pageCall[2][2]

\* C16 as stated: the interceptor posts only on a request to the search
\* endpoint whose query string carries both lat and long.
C16_PublishesOnSearchOnly ==
  (pageCall # None /\ EffectsAt("postMessage") # {}) =>
    /\ CallUrl.dest = "search"
    /\ CallUrl.params.lat # Null
    /\ CallUrl.params.long # Null

\* C16 amended: the interceptor posts only on a request whose URL begins
\* with https://api.snapp.express, whatever the endpoint, and whose query
\* string carries a non-empty lat and a non-empty long; it then posts once,
\* the URL's parameters.
C16_PublishesOnApiPrefixOnly ==
  (pageCall # None /\ EffectsAt("postMessage") # {}) =>
    /\ CallUrl.dest \in {"search", "vendor", "lookalike"}
    /\ CallUrl.params.lat \notin {Null, ""}
    /\ CallUrl.params.long \notin {Null, ""}
    /\ Cardinality(EffectsAt("postMessage")) = 1
    /\ \A i \in EffectsAt("postMessage") :
         pageLog[i] =
           PostMessage(<<"SNAPP_EXT", "SEARCH_CONTEXT", CallUrl.params>>)

\* a request to another endpoint of the API was captured
C16_Witness ==
  /\ pageCall # None
  /\ EffectsAt("postMessage") # {}
  /\ CallUrl.dest = "vendor"

\* C17: the popup opens with two product rows, holds at least one row ever
\* after, and a removal asked of the only remaining row leaves the list as
\* it is.
C17_AtLeastOneRow ==
  /\ Len(productRows) = 2
  /\ [](Len(productRows) >= 1)
  /\ [][\A i \in DOMAIN productRows :
          (Len(productRows) = 1 /\ removeProductInput(i)) =>
            productRows' = productRows]_vars

\* one row is left after a removal, and it holds a name
C17_Witness == Len(productRows) = 1 /\ productRows[1] = "milk"

\* a response of slot s has been processed: a query returned, or one failed
\* while another is still out
ResponseProcessed(s) ==
  \/ responses[s] # <<>>
  \/ /\ \E k \in DOMAIN query[s] : query[s][k] = "failed"
     /\ \E k \in DOMAIN query[s] : query[s][k] = "inflight"

\* C18: once any response of a computation has been processed, the fetch of
\* every one of its N queries has been issued, one per name in list order.
C18_AllDispatchedFirst ==
  \A s \in MainSlots :
    ResponseProcessed(s) =>
      /\ Len(fetchLog[s]) = Len(productNames[s])
      /\ \A k \in DOMAIN fetchLog[s] : fetchLog[s][k].query = productNames[s][k]

\* the first of two queries returned while the second is still out
C18_Witness ==
  \E s \in MainSlots :
    /\ Len(productNames[s]) = 2
    /\ query[s] = <<"ok", "inflight">>
    /\ Len(fetchLog[s]) = 2

\* C19: while a query of a computation has not settled, the request has no
\* response and no overlay, also when another query has already failed; so
\* a query that never settles leaves the request unanswered for good.
C19_OutcomeAfterAllSettle ==
  \A s \in MainSlots :
    (\E k \in DOMAIN query[s] : query[s][k] = "inflight") =>
      /\ replies[s] = <<>>
      /\ overlays[s] = <<>>
      /\ status[s] = "running"

\* one query failed early and the other is still out
C19_Witness ==
  \E s \in MainSlots :
    /\ query[s] = <<"failed", "inflight">>
    /\ replies[s] = <<>>

NamesListing(s, v) ==
  {productNames[s][completed[s][j]] :
     j \in {i \in DOMAIN completed[s] : Listed(v, responses[s][i])}}

ParamsOf(request) == [f \in ContextFields |-> request[f]]

\* the Search Context changed while the queries of slot s were out
UpdatedInFlight(s) ==
  /\ status[s] = "running"
  /\ Len(fetchLog[s]) >= 2
  /\ ParamsOf(fetchLog[s][1]) # dynamicSearchContext

\* two queries of the batch of slot s carry different context parameters
MixedBatch(s) ==
  \E j, k \in DOMAIN fetchLog[s] :
    ParamsOf(fetchLog[s][j]) # ParamsOf(fetchLog[s][k])

\* C21 as stated, on the states it is about: once the Search Context has
\* changed during an in-flight computation, two queries of that batch carry
\* different parameter values.
C21_UpdateSplitsBatch ==
  \A s \in MainSlots : UpdatedInFlight(s) => MixedBatch(s)

\* C21 amended: in no reachable state do two queries of one batch carry
\* different Search Context parameters, whatever captures arrive while the
\* computation is in flight; every query of a batch carries the context as
\* it was in the task that received the request.
C21_OneContextPerBatch ==
  \A s \in MainSlots : ~MixedBatch(s)

\* a capture changed the context while two queries were out
C21_Witness == \E s \in MainSlots : UpdatedInFlight(s)

\* the distinct names of a list
NameSet(names) == {names[k] : k \in DOMAIN names}

\* C22: a computation that reaches the network issues as many fetches as
\* its list has distinct names, one per distinct name.
C22_OneQueryPerDistinctName ==
  \A s \in MainSlots :
    fetchLog[s] # <<>> =>
      /\ Len(fetchLog[s]) = Cardinality(NameSet(productNames[s]))
      /\ \A j, k \in DOMAIN fetchLog[s] :
           j # k => fetchLog[s][j].query # fetchLog[s][k].query

\* the names of the queries of slot s that failed, in list order
FailedNames(s) ==
  [j \in DOMAIN SelectSeq([k \in DOMAIN query[s] |-> k],
                          LAMBDA k : query[s][k] = "failed") |->
     productNames[s][SelectSeq([k \in DOMAIN query[s] |-> k],
                               LAMBDA k : query[s][k] = "failed")[j]]]

\* C23: a request that ends on query failures is answered once by a failure
\* that lists, in list order, the name of every query that failed, the ones
\* that failed after the first included, and of no query that succeeded.
C23_FailureNamesFailedQueries ==
  \A s \in MainSlots :
    (status[s] = "done" /\ \E k \in DOMAIN query[s] : query[s][k] = "failed") =>
      /\ Len(replies[s]) = 1
      /\ ~replies[s][1].ok
      /\ replies[s][1].error = "SearchFailed"
      /\ replies[s][1].failed = FailedNames(s)
      /\ Len(replies[s][1].failed)
           = Cardinality({k \in DOMAIN query[s] : query[s][k] = "failed"})

\* the fetches of two distinct names both failed, one after the other, and
\* both names are reported
C23_Witness ==
  \E s \in MainSlots :
    /\ status[s] = "done"
    /\ query[s] = <<"failed", "failed">>
    /\ fetchLog[s] # <<>>
    /\ replies[s][1].failed = <<"milk", "bread">>

\* C30: when the accepted list repeats a name and every query succeeds, the
\* returned vendor list is empty, whatever the responses hold.
C30_RepeatedNameEmptyResult ==
  \A s \in MainSlots :
    (Returned(s) /\ AllSucceeded(s) /\ ~Distinct(productNames[s])) =>
      ResultList(s) = <<>>

\* a name was given twice and both responses list a vendor with a product
C30_Witness ==
  \E s \in MainSlots :
    /\ Returned(s) /\ AllSucceeded(s)
    /\ productNames[s] = <<"milk", "milk">>
    /\ \A k \in DOMAIN productNames[s] : ListedWithProduct("V1", ResponseOf(s, k))
    /\ ResultList(s) = <<>>

\* the window messages of SpecFrame: those of other scripts and those the
\* interceptor posts
FrameEvents == ForeignEvents \cup {Event(params) : params \in QueryStrings}

VendorIds(list) == {list[i].vendorId : i \in DOMAIN list}

MapIds(s) == {vendorMap[s][k].id : k \in DOMAIN vendorMap[s]}

\* C25: with two computations in progress at once, under every interleaving
\* of their completions, each aggregation map holds entries of its own
\* computation's responses only, and each computation returns the vendor
\* set that its own names and responses give when run alone, in any
\* completion order.
C25_ComputationsIsolated ==
  \A s \in Slots :
    /\ \A k \in DOMAIN vendorMap[s] :
         /\ NamesListing(s, vendorMap[s][k].id) # {}
         /\ DOMAIN vendorMap[s][k].products = NamesListing(s, vendorMap[s][k].id)
    /\ (Returned(s) /\ AllSucceeded(s)) =>
         \A order \in CompletionOrders(Len(productNames[s])) :
           VendorIds(ResultList(s))
             = VendorIds(Intersection(productNames[s], ResponsesByQuery(s),
                           [k \in DOMAIN productNames[s] |-> order[k]]))

\* both computations are in progress, each has folded one response, and the
\* two maps hold different vendors
C25_Witness ==
  /\ \A s \in Slots : status[s] = "running" /\ Len(responses[s]) = 1
  /\ MapIds("r1") = {"V1"}
  /\ MapIds("r2") = {"V2"}

\* the fetch of query k of slot s settles in this step
SettlesNow(s, k) ==
  /\ k \in DOMAIN query[s]
  /\ query[s][k] = "inflight"
  /\ query'[s][k] # "inflight"

\* C26: when the fetch of a query rejects or resolves with a non-success
\* status, whatever body comes with it, the query ends as failed, no
\* response data of it is kept or folded, and a request that ends in that
\* step is answered by a failure.
C26_TransportFailureSurfaces ==
  [][\A s \in MainSlots, k \in 1..MaxItems :
       SettlesNow(s, k) =>
         \A outcome \in Outcomes(productNames[s][k]) :
           (outcome[1] \in {"rejects", "status"} /\ FetchSettles(s, k, outcome)) =>
             /\ query'[s][k] = "failed"
             /\ responses'[s] = responses[s]
             /\ vendorMap'[s] = vendorMap[s]
             /\ status'[s] = "done" =>
                  (Len(replies'[s]) = 1 /\ ~replies'[s][1].ok
                   /\ overlays'[s] = <<>>)]_vars

\* the only fetch of a request failed and the request was refused, with no
\* response data kept
C26_Witness ==
  \E s \in MainSlots :
    /\ status[s] = "done"
    /\ query[s] = <<"failed">>
    /\ Len(fetchLog[s]) = 1
    /\ responses[s] = <<>>
    /\ ~replies[s][1].ok

\* a step that delivers a posted message, not a call of the host page
DeliverStep == posted # <<>> /\ posted' = Tail(posted)

\* C27: a call of the host page whose URL begins with the API base and does
\* not parse comes to exactly one thing, the call of the original transport
\* with the caller's arguments: nothing is thrown to the caller, no message
\* is posted and the content script's context is as it was.
C27_UnparsableUrlForwardedOnly ==
  [][(/\ ~DeliverStep
      /\ pageCall' # None
      /\ pageCall'[2] # <<>>
      /\ CallUrl'.dest = "malformed") =>
       /\ pageLog' = <<Transport(pageCall'[1], pageCall'[2])>>
       /\ posted' = posted
       /\ dynamicSearchContext' = dynamicSearchContext
       /\ captured' = captured]_vars

\* the page fetched a string URL that does not parse and carries a latitude
\* and a longitude, and the call was handed on
C27_Witness ==
  /\ pageCall # None
  /\ pageCall[1] = "fetch"
  /\ pageCall[2] # <<>>
  /\ CallUrl.dest = "malformed"
  /\ CallUrl.form = "string"
  /\ CallUrl.params.lat = "35.7"
  /\ CallUrl.params.long = "51.4"
  /\ pageLog = <<Transport("fetch", pageCall[2])>>

\* the two shapes of an answer
WellFormedReply(reply) ==
  \/ reply.ok /\ reply.error = ""
  \/ ~reply.ok /\ reply.error # "" /\ reply.result = <<>>

\* C28: a request is never answered twice, a request in progress is not yet
\* answered, a request that ended has exactly one answer, of one of the two
\* shapes, and, its fetches settling in the end, a request in progress ends.
C28_AnsweredExactlyOnce ==
  /\ [](\A s \in MainSlots :
          /\ Len(replies[s]) <= 1
          /\ status[s] = "running" => replies[s] = <<>>
          /\ status[s] = "done" =>
               (Len(replies[s]) = 1 /\ WellFormedReply(replies[s][1])))
  /\ \A s \in MainSlots : (status[s] = "running") ~> (status[s] = "done")

\* a request of two names ended, one query answered and one failed, with its
\* one answer
C28_Witness ==
  \E s \in MainSlots :
    /\ status[s] = "done"
    /\ query[s] = <<"ok", "failed">>
    /\ Len(replies[s]) = 1
    /\ ~replies[s][1].ok

\* the FIND_STORES_FOR_LIST requests of the popup that are in flight
InFlightRequests == SelectSeq(searches, LAMBDA c : c[1] = "tabs.sendMessage")

\* C29: at most one search of the popup is in progress, and at most one of
\* its FIND_STORES_FOR_LIST requests is in flight.
C29_OneSearchAtATime ==
  /\ Len(searches) <= 1
  /\ Len(InFlightRequests) <= 1

====
